---- MODULE Spec2Model ----
(***************************************************************************)
(* Model of the UPI transaction analysis pipeline (src/analysis.py):       *)
(* load_data, the group-by summaries, the fraud aggregations and the       *)
(* rule-based anomaly scorer.                                              *)
(*                                                                         *)
(* A table (DataFrame) is a record [columns, rows]: the column labels in   *)
(* order and the rows in order, each row a function from column label to   *)
(* cell.  A missing value of a text column (NaN) is the string NaN; a      *)
(* possibly missing float is a fraction [num, den] with den = 0 for NaN.   *)
(* anomaly_score is kept in tenths (567 stands for 56.7).                  *)
(***************************************************************************)
EXTENDS Integers, Sequences, FiniteSets, TLC

\* ------------------------------------------------------------------ bounds
MaxRows == 3
MaxHourRows == 2
MaxLoadRows == 2

\* --------------------------------------------------------------- constants
NaN == "NaN"
NaT == 0
NoRef == 0

\* The columns of the input schema that analysis.py reads.
SchemaColumns ==
  <<"transaction_id", "date", "datetime", "month_name", "day_of_week", "hour",
    "category", "merchant", "amount", "payment_mode", "state", "is_fraud">>

TextColumns == {"month_name", "day_of_week", "category", "merchant", "payment_mode", "state"}

\* categories=[...] of load_data
MONTH_CATEGORIES ==
  <<"January", "February", "March", "April", "May", "June",
    "July", "August", "September", "October", "November", "December">>

\* order=[...] of dayofweek_summary
DAY_ORDER == <<"Monday", "Tuesday", "Wednesday", "Thursday", "Friday", "Saturday", "Sunday">>

\* Cells that pandas.read_csv turns into NaN (its default na_values).
NaValues == {"", "NA", "N/A", "NaN", "nan", "null", "NULL", "None"}

\* Python's str ordering on the text values that occur: the listing is
\* ascending in code-point order.
LexOrder ==
  <<"April", "Crypto", "Food", "Friday", "Funday", "January", "Karnataka", "March",
    "Monday", "QR Code", "Shopping", "Smarch", "Sunday", "Swiggy", "UPI ID",
    "Zomato">>

\* ------------------------------------------------------------------ helpers
Range(s) == {s[i] : i \in 1..Len(s)}

IndexIn(s, v) == IF v \in Range(s) THEN CHOOSE i \in 1..Len(s) : s[i] = v ELSE 0

Min(S) == CHOOSE x \in S : \A y \in S : x <= y
Max(S) == CHOOSE x \in S : \A y \in S : x >= y

RECURSIVE SumOver(_, _, _)
\* sum of column col over the rows whose positions are in I
SumOver(rows, col, I) ==
  IF I = {} THEN 0
  ELSE LET i == CHOOSE j \in I : TRUE
       IN rows[i][col] + SumOver(rows, col, I \ {i})

RECURSIVE SumField(_, _)
\* sum of field f over a sequence of records
SumField(s, f) == IF s = <<>> THEN 0 ELSE s[1][f] + SumField(Tail(s), f)

\* Sequences over S of length at most n.
SeqsUpTo(S, n) == UNION {[1..k -> S] : k \in 0..n}

\* Orderings of a finite set.
Orderings(S) == {s \in [1..Cardinality(S) -> S] : \A i, j \in 1..Cardinality(S) : i # j => s[i] # s[j]}

\* numpy round: nearest, ties to even; num >= 0, den > 0
RoundHalfEven(num, den) ==
  LET q == num \div den
      r == num % den
  IN IF 2 * r < den THEN q
     ELSE IF 2 * r > den THEN q + 1
     ELSE IF q % 2 = 0 THEN q ELSE q + 1

Frac(n, d) == [num |-> n, den |-> d]
IsNaN(f) == f.den = 0

\* ------------------------------------------------------------------- state
VARIABLES
  file,      \* the CSV file on disk: [columns, rows], every cell raw text or number
  heap,      \* the DataFrame objects that exist, by reference (position)
  df,        \* the caller's reference to the table load_data returned, or NoRef
  loadError, \* the exception load_data raised, or "none"
  out,       \* the result of the last analysis call: [op, rows, error, ref]
  series     \* the Series compute_anomaly_score built in its last call

vars == <<file, heap, df, loadError, out, series>>

NoOut == [op |-> "none", rows |-> <<>>, error |-> "none", ref |-> NoRef]
NoSeries == [amount_pct |-> <<>>, odd_hour |-> <<>>, high_val |-> <<>>, total |-> <<>>]

Columns(t) == Range(t.columns)
NRows(t) == Len(t.rows)
Table(ref) == heap[ref]

\* ------------------------------------------------------- 1. data loading
\* What read_csv makes of a cell of a text column.
ReadCsvCell(v) == IF v \in NaValues THEN NaN ELSE v

\* The dates the parser understands, as day of the year 2024; anything else
\* does not parse.
ParseableDates == {"2024-01-15", "2024-03-05"}
DateOrdinal(s) == IF s = "2024-01-15" THEN 15 ELSE 65

CanParseDate(v) == v \in ParseableDates \/ v \in NaValues
ParseDate(v) == IF v \in NaValues THEN NaT ELSE DateOrdinal(v)

\* pd.read_csv(filepath, parse_dates=["datetime"]): text cells become NaN
\* when they spell a missing value; the datetime column is converted when
\* every cell parses and is left as text otherwise.
ReadCsv(f) ==
  LET cols == Range(f.columns)
      parses == \A i \in 1..Len(f.rows) : CanParseDate(f.rows[i]["datetime"])
      cell(r, c) ==
        IF c \in TextColumns THEN ReadCsvCell(r[c])
        ELSE IF c = "datetime" /\ parses THEN ParseDate(r[c])
        ELSE r[c]
  IN [columns |-> f.columns,
      rows |-> [i \in 1..Len(f.rows) |-> [c \in cols |-> cell(f.rows[i], c)]]]

\* The code of a value in the ordered Categorical of load_data: its position
\* in categories, 0 (pandas: -1) for a value outside them.
CategoricalCodeLex(v) == IndexIn(LexOrder, v)
CategoricalCode(v) == IndexIn(MONTH_CATEGORIES, v)

\* pd.Categorical(values, categories=..., ordered=True): a value outside the
\* categories becomes NaN.
ToCategorical(v) == IF v \in Range(MONTH_CATEGORIES) THEN v ELSE NaN

\* The exception load_data raises on file f, "none" when it returns a table.
LoadDataError(f) ==
  LET cols == Range(f.columns)
  IN IF "datetime" \notin cols THEN "ValueError"
     ELSE IF "date" \notin cols THEN "KeyError"
     ELSE IF \E i \in 1..Len(f.rows) : ~CanParseDate(f.rows[i]["date"]) THEN "ValueError"
     ELSE IF "month_name" \notin cols THEN "KeyError"
     ELSE "none"

\* The table load_data returns when it raises nothing.
LoadDataTable(f) ==
  LET t == ReadCsv(f)
      cell(r, c) ==
        IF c = "date" THEN ParseDate(r[c])
        ELSE IF c = "month_name" THEN ToCategorical(r[c])
        ELSE r[c]
  IN [columns |-> t.columns,
      rows |-> [i \in 1..Len(t.rows) |-> [c \in Columns(t) |-> cell(t.rows[i], c)]]]

LoadData ==
  /\ df = NoRef
  /\ loadError = "none"
  /\ LET e == LoadDataError(file)
     IN IF e = "none"
        THEN /\ heap' = Append(heap, LoadDataTable(file))
             /\ df' = Len(heap) + 1
             /\ loadError' = "none"
        ELSE /\ loadError' = e
             /\ UNCHANGED <<heap, df>>
  /\ UNCHANGED <<file, out, series>>

\* ------------------------------------------------------------ 2. group-by
\* The position of a group key in the order groupby(sort=True) puts the
\* groups in: category order for the Categorical month_name, str order for
\* other text, numeric order for numbers.
KeyIndex(col, v) ==
  IF col = "month_name" THEN CategoricalCode(v)
  ELSE IF col \in TextColumns THEN IndexIn(LexOrder, v)
  ELSE v

\* The group keys of df.groupby(col): the values that occur, NaN dropped
\* (dropna=True is the default).
GroupKeys(t, col) ==
  LET vals == {t.rows[i][col] : i \in 1..NRows(t)}
  IN IF col \in TextColumns THEN vals \ {NaN} ELSE vals

\* The group keys in the order of the result's index.
SortedKeys(t, col) ==
  LET K == GroupKeys(t, col)
  IN IF K = {} THEN <<>>
     ELSE CHOOSE s \in Orderings(K) :
            \A i, j \in 1..Len(s) : i < j => KeyIndex(col, s[i]) < KeyIndex(col, s[j])

\* The positions of the rows of group k.
GroupRows(t, col, k) == {i \in 1..NRows(t) : t.rows[i][col] = k}

\* The aggregations "sum", "count" and "mean" of a column over one group.
AggSum(t, col, I) == SumOver(t.rows, col, I)
AggCountFlagged(t, col, I) == Cardinality({i \in I : t.rows[i][col] = 1})
AggCount(t, col, I) == Cardinality(I)
AggMean(t, col, I) == Frac(SumOver(t.rows, col, I), Cardinality(I))

\* .sort_values(f, ascending=False): every ordering of the rows that is
\* descending in f (the default sort is not stable, ties may land either way).
SortValuesDesc(rows, f) ==
  {s \in Orderings(Range(rows)) : \A i, j \in 1..Len(s) : i < j => s[i][f] >= s[j][f]}

\* .head(n)
Head_(s, n) == SubSeq(s, 1, Min({n, Len(s)}))

\* A result, or the KeyError of reading a column the table does not have.
Result(op, t, needed, rows) ==
  IF needed \subseteq Columns(t)
  THEN [op |-> op, rows |-> rows, error |-> "none", ref |-> NoRef]
  ELSE [op |-> op, rows |-> <<>>, error |-> "KeyError", ref |-> NoRef]

\* ------------------------------------------------ 3. spending summaries
MonthlySummaryRows(t) ==
  LET keys == SortedKeys(t, "month_name")
      row(k) == LET I == GroupRows(t, "month_name", k)
                IN [month_name |-> k,
                    total_spend |-> AggSum(t, "amount", I),
                    transaction_count |-> AggCount(t, "amount", I),
                    avg_spend |-> AggMean(t, "amount", I),
                    flagged |-> AggSum(t, "is_fraud", I)]
  IN [n \in 1..Len(keys) |-> row(keys[n])]

CategorySummaryGroups(t) ==
  LET keys == SortedKeys(t, "category")
      row(k) == LET I == GroupRows(t, "category", k)
                IN [category |-> k,
                    total_spend |-> AggSum(t, "amount", I),
                    transaction_count |-> AggCount(t, "amount", I),
                    avg_spend |-> AggMean(t, "amount", I),
                    flagged |-> AggSum(t, "is_fraud", I)]
  IN [n \in 1..Len(keys) |-> row(keys[n])]

TopMerchantsGroups(t) ==
  LET keys == SortedKeys(t, "merchant")
      row(k) == LET I == GroupRows(t, "merchant", k)
                IN [merchant |-> k,
                    total_spend |-> AggSum(t, "amount", I),
                    count |-> AggCount(t, "amount", I)]
  IN [n \in 1..Len(keys) |-> row(keys[n])]

\* .reindex([d for d in order if d in index]): the labels that are groups only.
ReindexPresent(groups, order) ==
  LET present == SelectSeq(order, LAMBDA d : \E n \in 1..Len(groups) : groups[n].day_of_week = d)
  IN [n \in 1..Len(present) |->
        groups[CHOOSE m \in 1..Len(groups) : groups[m].day_of_week = present[n]]]

ReindexNone(groups, order) == groups

\* .reindex(order): one row per label of order, in that order; a label that
\* is no group gets NaN in every column (and the columns become float).
Reindex(groups, order) ==
  LET NaNRow(d) == [day_of_week |-> d, total_spend |-> Frac(0, 0),
                    count |-> Frac(0, 0), avg_spend |-> Frac(0, 0)]
      at(d) == IF \E n \in 1..Len(groups) : groups[n].day_of_week = d
               THEN groups[CHOOSE n \in 1..Len(groups) : groups[n].day_of_week = d]
               ELSE NaNRow(d)
  IN [n \in 1..Len(order) |-> at(order[n])]

DayOfWeekGroups(t) ==
  LET keys == SortedKeys(t, "day_of_week")
      row(k) == LET I == GroupRows(t, "day_of_week", k)
                IN [day_of_week |-> k,
                    total_spend |-> Frac(AggSum(t, "amount", I), 1),
                    count |-> Frac(AggCount(t, "amount", I), 1),
                    avg_spend |-> AggMean(t, "amount", I)]
  IN [n \in 1..Len(keys) |-> row(keys[n])]

HourlySummaryRows(t) ==
  LET keys == SortedKeys(t, "hour")
      row(k) == LET I == GroupRows(t, "hour", k)
                IN [hour |-> k,
                    count |-> AggCount(t, "amount", I),
                    flagged |-> AggSum(t, "is_fraud", I),
                    total_spend |-> AggSum(t, "amount", I)]
  IN [n \in 1..Len(keys) |-> row(keys[n])]

PaymentModeSummaryRows(t) ==
  LET keys == SortedKeys(t, "payment_mode")
      row(k) == LET I == GroupRows(t, "payment_mode", k)
                IN [payment_mode |-> k,
                    count |-> AggCount(t, "amount", I),
                    total_spend |-> AggSum(t, "amount", I),
                    avg_spend |-> AggMean(t, "amount", I)]
  IN [n \in 1..Len(keys) |-> row(keys[n])]

StateSummaryGroups(t) ==
  LET keys == SortedKeys(t, "state")
      row(k) == LET I == GroupRows(t, "state", k)
                IN [state |-> k,
                    total_spend |-> AggSum(t, "amount", I),
                    count |-> AggCount(t, "amount", I)]
  IN [n \in 1..Len(keys) |-> row(keys[n])]

\* ------------------------------------------------------ 4. fraud analysis
FraudByHourRows(t) ==
  LET keys == SortedKeys(t, "hour")
      row(k) == LET I == GroupRows(t, "hour", k)
                IN [hour |-> k,
                    fraud |-> AggSum(t, "is_fraud", I),
                    total |-> AggCount(t, "is_fraud", I)]
  IN [n \in 1..Len(keys) |-> row(keys[n])]

\* fraud_by_category with fraud_amount=("amount", "sum"): the whole group's amount.
FraudByCategoryGroupsTotal(t) ==
  LET keys == SortedKeys(t, "category")
      row(k) == LET I == GroupRows(t, "category", k)
                IN [category |-> k,
                    fraud_count |-> AggSum(t, "is_fraud", I),
                    total |-> AggCount(t, "amount", I),
                    fraud_amount |-> AggSum(t, "amount", I)]
  IN [n \in 1..Len(keys) |-> row(keys[n])]

FraudByCategoryGroups(t) ==
  LET keys == SortedKeys(t, "category")
      row(k) == LET I == GroupRows(t, "category", k)
                IN [category |-> k,
                    fraud_count |-> AggSum(t, "is_fraud", I),
                    total |-> AggCount(t, "amount", I),
                    fraud_amount |-> AggSum(t, "amount", {i \in I : t.rows[i]["is_fraud"] = 1})]
  IN [n \in 1..Len(keys) |-> row(keys[n])]

FraudByMonthRows(t) ==
  LET keys == SortedKeys(t, "month_name")
      row(k) == LET I == GroupRows(t, "month_name", k)
                IN [month_name |-> k,
                    fraud |-> AggSum(t, "is_fraud", I),
                    total |-> AggCount(t, "amount", I)]
  IN [n \in 1..Len(keys) |-> row(keys[n])]

\* ---------------------------------------------------------- basic_info
\* The k-th smallest value of a column (k from 1).
KthSmallest(t, col, k) ==
  CHOOSE v \in {t.rows[i][col] : i \in 1..NRows(t)} :
    /\ Cardinality({i \in 1..NRows(t) : t.rows[i][col] < v}) < k
    /\ Cardinality({i \in 1..NRows(t) : t.rows[i][col] <= v}) >= k

\* Series.median(): the middle value, or the mean of the two middle values.
Median(t, col) ==
  LET n == NRows(t)
  IN IF n % 2 = 1 THEN Frac(KthSmallest(t, col, (n + 1) \div 2), 1)
     ELSE Frac(KthSmallest(t, col, n \div 2) + KthSmallest(t, col, n \div 2 + 1), 2)

\* Series.nunique(): distinct values, NaN not counted.
NUnique(t, col) == Cardinality({t.rows[i][col] : i \in 1..NRows(t)} \ {NaN})

\* The dict basic_info returns for a table with at least one row; the two
\* rounded figures are in hundredths.
BasicInfoDict(t) ==
  LET n == NRows(t)
      all == 1..n
      dates == {t.rows[i]["date"] : i \in all} \ {NaT}
  IN [total_transactions |-> n,
      total_spend |-> SumOver(t.rows, "amount", all),
      avg_transaction |-> Frac(RoundHalfEven(100 * SumOver(t.rows, "amount", all), n), 100),
      median_transaction |-> Median(t, "amount"),
      date_range |-> IF dates = {} THEN <<NaT, NaT>> ELSE <<Min(dates), Max(dates)>>,
      unique_merchants |-> NUnique(t, "merchant"),
      unique_categories |-> NUnique(t, "category"),
      flagged_count |-> SumOver(t.rows, "is_fraud", all),
      fraud_rate_pct |-> Frac(RoundHalfEven(10000 * SumOver(t.rows, "is_fraud", all), n), 100)]

\* The dict basic_info returns for a table without rows: the sums and counts
\* are 0, the mean, the median and the rate are NaN, the dates NaT.
BasicInfoEmpty ==
  [total_transactions |-> 0,
   total_spend |-> 0,
   avg_transaction |-> Frac(0, 0),
   median_transaction |-> Frac(0, 0),
   date_range |-> <<NaT, NaT>>,
   unique_merchants |-> 0,
   unique_categories |-> 0,
   flagged_count |-> 0,
   fraud_rate_pct |-> Frac(0, 0)]

BasicInfoColumns == {"amount", "date", "merchant", "category", "is_fraud"}

\* ------------------------------------------------------ 5. anomaly scoring
\* df.copy(): a new object with the same columns and rows; the heap with
\* the copy in slot 2 and the reference to it.
DfCopyAlias(h, r) == [heap |-> h, ref |-> r]
DfCopy(h, r) == [heap |-> <<h[r], h[r]>>, ref |-> 2]

\* df[col] = values: the column is replaced where it is, or added last.
SetColumn(t, col, values) ==
  [columns |-> IF col \in Columns(t) THEN t.columns ELSE Append(t.columns, col),
   rows |-> [i \in 1..NRows(t) |->
               [c \in Columns(t) \cup {col} |-> IF c = col THEN values[i] ELSE t.rows[i][c]]]]

\* Series.rank() with method="min": ties all get the lowest of their ranks.
RankMin(t, col, i) ==
  LET v == t.rows[i][col]
  IN Frac(1 + Cardinality({j \in 1..NRows(t) : t.rows[j][col] < v}), 1)

\* Series.rank() with method="first": ties ranked in order of appearance.
RankFirst(t, col, i) ==
  LET v == t.rows[i][col]
      lo == Cardinality({j \in 1..NRows(t) : t.rows[j][col] < v})
            + Cardinality({j \in 1..i : t.rows[j][col] = v})
  IN Frac(lo, 1)

\* Series.rank(): the average of the ranks (from 1) of the rows with the
\* same value.
RankAverage(t, col, i) ==
  LET v == t.rows[i][col]
      lo == 1 + Cardinality({j \in 1..NRows(t) : t.rows[j][col] < v})
      hi == Cardinality({j \in 1..NRows(t) : t.rows[j][col] <= v})
  IN Frac(lo + hi, 2)

\* df["amount"].rank(pct=True) * 40
AmountPctWide(t, i) ==
  LET r == RankAverage(t, "amount", i)
  IN Frac(60 * r.num, r.den * NRows(t))

AmountPct(t, i) ==
  LET r == RankAverage(t, "amount", i)
  IN Frac(40 * r.num, r.den * NRows(t))

\* lambda h: 30 if h in range(1, 5) else 0
OddHourTo5(h) == IF h \in 1..5 THEN 30 ELSE 0
OddHour(h) == IF h \in 1..4 THEN 30 ELSE 0

\* df["amount"].quantile(0.95), linear interpolation between the two order
\* statistics around position 0.95 * (n - 1); n > 0.
Quantile95(t) ==
  LET n == NRows(t)
      pos == 95 * (n - 1)
      k == pos \div 100
      f == pos % 100
      a == KthSmallest(t, "amount", k + 1)
  IN IF f = 0 THEN Frac(a, 1)
     ELSE Frac(100 * a + f * (KthSmallest(t, "amount", k + 2) - a), 100)

\* (df["amount"] > quantile).astype(int) * 20
HighVal(t, i) ==
  LET q == Quantile95(t)
  IN IF t.rows[i]["amount"] * q.den > q.num THEN 20 ELSE 0

\* amount_pct + odd_hour + high_val of row i
ScoreSum(t, i) ==
  LET p == AmountPct(t, i)
  IN Frac(p.num + (OddHour(t.rows[i]["hour"]) + HighVal(t, i)) * p.den, p.den)

\* .clip(0, 100)
Clip(f) ==
  IF f.num < 0 THEN Frac(0, f.den)
  ELSE IF f.num > 100 * f.den THEN Frac(100 * f.den, f.den)
  ELSE f

\* .round(1), in tenths
Round1(f) == RoundHalfEven(10 * f.num, f.den)

AnomalyScores(t) == [i \in 1..NRows(t) |-> Round1(Clip(ScoreSum(t, i)))]

\* --------------------------------------------------------------- actions
\* Each analysis call takes the loaded table; the caller keeps the latest
\* result only, so an earlier returned table is released.
Loaded == df # NoRef

Release == heap' = <<heap[df]>>

BasicInfo ==
  /\ Loaded
  /\ LET t == Table(df)
     IN IF ~(BasicInfoColumns \subseteq Columns(t))
        THEN out' = [op |-> "basic_info", rows |-> <<>>, error |-> "KeyError", ref |-> NoRef]
        ELSE IF NRows(t) > 0
        THEN out' = [op |-> "basic_info", rows |-> <<BasicInfoDict(t)>>,
                     error |-> "none", ref |-> NoRef]
        \* mean() of no values is NaN, a plain float in some versions of the
        \* library and a numpy scalar in others; .round(2) exists only on
        \* the latter
        ELSE \E numpyScalar \in BOOLEAN :
               out' = [op |-> "basic_info",
                       rows |-> IF numpyScalar THEN <<BasicInfoEmpty>> ELSE <<>>,
                       error |-> IF numpyScalar THEN "none" ELSE "AttributeError",
                       ref |-> NoRef]
  /\ Release
  /\ series' = NoSeries
  /\ UNCHANGED <<file, df, loadError>>

MonthlySummary ==
  /\ Loaded
  /\ out' = Result("monthly_summary", Table(df), {"month_name", "amount", "is_fraud"},
                   MonthlySummaryRows(Table(df)))
  /\ Release
  /\ series' = NoSeries
  /\ UNCHANGED <<file, df, loadError>>

CategorySummary ==
  /\ Loaded
  /\ LET t == Table(df)
         needed == {"category", "amount", "is_fraud"}
     IN IF needed \subseteq Columns(t)
        THEN \E s \in SortValuesDesc(CategorySummaryGroups(t), "total_spend") :
               out' = Result("category_summary", t, needed, s)
        ELSE out' = Result("category_summary", t, needed, <<>>)
  /\ Release
  /\ series' = NoSeries
  /\ UNCHANGED <<file, df, loadError>>

\* n is the caller's; 10 is the default.
TopMerchants ==
  /\ Loaded
  /\ LET t == Table(df)
         needed == {"merchant", "amount"}
     IN IF needed \subseteq Columns(t)
        THEN \E n \in {1, 10} : \E s \in SortValuesDesc(TopMerchantsGroups(t), "total_spend") :
               out' = Result("top_merchants", t, needed, Head_(s, n))
        ELSE out' = Result("top_merchants", t, needed, <<>>)
  /\ Release
  /\ series' = NoSeries
  /\ UNCHANGED <<file, df, loadError>>

DayOfWeekSummary ==
  /\ Loaded
  /\ out' = Result("dayofweek_summary", Table(df), {"day_of_week", "amount"},
                   Reindex(DayOfWeekGroups(Table(df)), DAY_ORDER))
  /\ Release
  /\ series' = NoSeries
  /\ UNCHANGED <<file, df, loadError>>

HourlySummary ==
  /\ Loaded
  /\ out' = Result("hourly_summary", Table(df), {"hour", "amount", "is_fraud"},
                   HourlySummaryRows(Table(df)))
  /\ Release
  /\ series' = NoSeries
  /\ UNCHANGED <<file, df, loadError>>

PaymentModeSummary ==
  /\ Loaded
  /\ out' = Result("payment_mode_summary", Table(df), {"payment_mode", "amount"},
                   PaymentModeSummaryRows(Table(df)))
  /\ Release
  /\ series' = NoSeries
  /\ UNCHANGED <<file, df, loadError>>

StateSummary ==
  /\ Loaded
  /\ LET t == Table(df)
         needed == {"state", "amount"}
     IN IF needed \subseteq Columns(t)
        THEN \E s \in SortValuesDesc(StateSummaryGroups(t), "total_spend") :
               out' = Result("state_summary", t, needed, s)
        ELSE out' = Result("state_summary", t, needed, <<>>)
  /\ Release
  /\ series' = NoSeries
  /\ UNCHANGED <<file, df, loadError>>

FraudByHour ==
  /\ Loaded
  /\ out' = Result("fraud_by_hour", Table(df), {"hour", "is_fraud"},
                   FraudByHourRows(Table(df)))
  /\ Release
  /\ series' = NoSeries
  /\ UNCHANGED <<file, df, loadError>>

FraudByCategory ==
  /\ Loaded
  /\ LET t == Table(df)
         needed == {"category", "amount", "is_fraud"}
     IN IF needed \subseteq Columns(t)
        THEN \E s \in SortValuesDesc(FraudByCategoryGroups(t), "fraud_count") :
               out' = Result("fraud_by_category", t, needed, s)
        ELSE out' = Result("fraud_by_category", t, needed, <<>>)
  /\ Release
  /\ series' = NoSeries
  /\ UNCHANGED <<file, df, loadError>>

FraudByMonth ==
  /\ Loaded
  /\ out' = Result("fraud_by_month", Table(df), {"month_name", "amount", "is_fraud"},
                   FraudByMonthRows(Table(df)))
  /\ Release
  /\ series' = NoSeries
  /\ UNCHANGED <<file, df, loadError>>

ComputeAnomalyScore ==
  /\ Loaded
  /\ LET c == DfCopy(heap, df)
         t == c.heap[c.ref]
         n == NRows(t)
     IN IF {"amount", "hour"} \subseteq Columns(t)
        THEN /\ series' = [amount_pct |-> [i \in 1..n |-> AmountPct(t, i)],
                           odd_hour |-> [i \in 1..n |-> OddHour(t.rows[i]["hour"])],
                           high_val |-> [i \in 1..n |-> HighVal(t, i)],
                           total |-> [i \in 1..n |-> ScoreSum(t, i)]]
             /\ heap' = [c.heap EXCEPT ![c.ref] = SetColumn(t, "anomaly_score", AnomalyScores(t))]
             /\ out' = [op |-> "compute_anomaly_score", rows |-> <<>>,
                        error |-> "none", ref |-> c.ref]
        ELSE /\ series' = NoSeries
             /\ Release
             /\ out' = [op |-> "compute_anomaly_score", rows |-> <<>>,
                        error |-> "KeyError", ref |-> NoRef]
  /\ UNCHANGED <<file, df, loadError>>

Next ==
  \/ LoadData
  \/ BasicInfo
  \/ MonthlySummary
  \/ CategorySummary
  \/ TopMerchants
  \/ DayOfWeekSummary
  \/ HourlySummary
  \/ PaymentModeSummary
  \/ StateSummary
  \/ FraudByHour
  \/ FraudByCategory
  \/ FraudByMonth
  \/ ComputeAnomalyScore

\* ------------------------------------------------------------ the inputs
\* One line of the CSV file; the cells not given are those of an ordinary
\* transaction.
RawRow(month, day, hour, cat, amount, fraud) ==
  [transaction_id |-> 0, date |-> "2024-01-15", datetime |-> "2024-01-15",
   month_name |-> month, day_of_week |-> day, hour |-> hour,
   category |-> cat, merchant |-> "Swiggy", amount |-> amount,
   payment_mode |-> "UPI ID", state |-> "Karnataka", is_fraud |-> fraud]

\* The file with the given lines, transaction ids numbered from 1, and the
\* given columns left out.
FileOf(lines, missing) ==
  LET cols == SelectSeq(SchemaColumns, LAMBDA c : c \notin missing)
  IN [columns |-> cols,
      rows |-> [i \in 1..Len(lines) |->
                  [c \in Range(cols) |-> IF c = "transaction_id" THEN i ELSE lines[i][c]]]]

InitOver(lineSet, maxLen, missingSets) ==
  /\ file \in {FileOf(l, m) : l \in SeqsUpTo(lineSet, maxLen), m \in missingSets}
  /\ heap = <<>>
  /\ df = NoRef
  /\ loadError = "none"
  /\ out = NoOut
  /\ series = NoSeries

\* Categories known, unknown and spelling a missing value; small and large
\* amounts, the large ones flagged or not.
CategoryLines ==
  {RawRow("January", "Monday", 10, c, x[1], x[2]) :
     c \in {"Food", "Crypto", "NA"}, x \in {<<100, 0>>, <<5000, 0>>, <<5000, 1>>}}

\* Months whose calendar order differs from their str order, and a name
\* that is no month.
MonthLines ==
  {RawRow(m, "Monday", 10, "Food", 100, f) : m \in {"January", "March", "April", "Smarch"}, f \in {0, 1}}

FraudHourLines ==
  {RawRow("January", "Monday", h, "Food", 100, f) : h \in {2, 10, 14}, f \in {0, 1}}

ScoreLines ==
  {RawRow("January", "Monday", h, "Food", a, 0) : h \in {1, 10}, a \in {100, 5000, 8000}}

AllHourLines ==
  {RawRow("January", "Monday", h, "Food", 100, 0) : h \in 0..23}

LoadLines ==
  {[RawRow("January", "Monday", 10, c, 100, 0) EXCEPT !["date"] = d, !["datetime"] = dt] :
     c \in {"Food", "Crypto"}, d \in {"2024-03-05", "not-a-date"}, dt \in {"2024-03-05", "not-a-date"}}

\* Days whose week order differs from their str order, and a name that is
\* no day.
DayLines ==
  {RawRow("January", d, 10, "Food", a, 0) : d \in {"Sunday", "Monday", "Friday", "Funday"}, a \in {100, 5000}}

MissingColumnSets == {{}, {"amount"}, {"date"}, {"datetime"}, {"month_name"}, {"category"}}

Init == InitOver(CategoryLines, MaxRows, {{}})
InitMonth == InitOver(MonthLines, MaxRows, {{}})
InitFraudHour == InitOver(FraudHourLines, MaxRows, {{}})
InitScore == InitOver(ScoreLines, MaxRows, {{}})
InitAllHours == InitOver(AllHourLines, MaxHourRows, {{}})
InitLoad == InitOver(LoadLines, MaxLoadRows, MissingColumnSets)

InitDay == InitOver(DayLines, MaxRows, {{}})

Spec == Init /\ [][Next]_vars
SpecMonth == InitMonth /\ [][Next]_vars
SpecFraudHour == InitFraudHour /\ [][Next]_vars
SpecScore == InitScore /\ [][Next]_vars
SpecAllHours == InitAllHours /\ [][Next]_vars
SpecLoad == InitLoad /\ [][Next]_vars
SpecDay == InitDay /\ [][Next]_vars

\* ------------------------------------------------------------ properties
Called(op) == Loaded /\ out.op = op /\ out.error = "none"

Input == Table(df)

AllRows(t) == 1..NRows(t)

CalendarIndex(m) == IndexIn(MONTH_CATEGORIES, m)

\* C1: for a table with rows, category_summary's total_spend adds up to the
\* table's amount and its transaction_count adds up to the number of rows.
CategorySummaryConservesTotals ==
  (Called("category_summary") /\ NRows(Input) > 0) =>
    /\ SumField(out.rows, "total_spend") = SumOver(Input.rows, "amount", AllRows(Input))
    /\ SumField(out.rows, "transaction_count") = NRows(Input)

\* C2: monthly_summary and fraud_by_month list the months of the loaded
\* table, one row each, in calendar order, whatever the order of the rows.
MonthRowsInCalendarOrder ==
  (Called("monthly_summary") \/ Called("fraud_by_month")) =>
    /\ \A n \in 1..Len(out.rows) : CalendarIndex(out.rows[n].month_name) > 0
    /\ \A n, m \in 1..Len(out.rows) :
         n < m => CalendarIndex(out.rows[n].month_name) < CalendarIndex(out.rows[m].month_name)
    /\ {out.rows[n].month_name : n \in 1..Len(out.rows)}
         = {Input.rows[i]["month_name"] : i \in AllRows(Input)} \cap Range(MONTH_CATEGORIES)

\* C2 witness: the file starts with April and March, January comes later;
\* the summary starts with January.
MonthRowsReordered ==
  /\ Called("monthly_summary")
  /\ Len(file.rows) >= 3
  /\ file.rows[1]["month_name"] = "April"
  /\ file.rows[2]["month_name"] = "March"
  /\ Len(out.rows) = 3
  /\ out.rows[1].month_name = "January"

\* C3: every anomaly_score is within 0..100 and the sum of the three
\* components is at most 90, so that clipping changes nothing.
ScoreWithinRange ==
  Called("compute_anomaly_score") =>
    \A i \in 1..NRows(Table(out.ref)) :
      /\ Table(out.ref).rows[i]["anomaly_score"] \in 0..1000
      /\ series.total[i].num >= 0
      /\ series.total[i].num <= 90 * series.total[i].den
      /\ Table(out.ref).rows[i]["anomaly_score"]
           = RoundHalfEven(10 * series.total[i].num, series.total[i].den)

\* C3 witness: a transaction that collects all 90 points.
ScoreReaches90 ==
  /\ Called("compute_anomaly_score")
  /\ \E i \in 1..NRows(Table(out.ref)) :
       /\ series.total[i].num = 90 * series.total[i].den
       /\ Table(out.ref).rows[i]["anomaly_score"] = 900

PermuteRows(t, p) == [columns |-> t.columns, rows |-> [i \in 1..NRows(t) |-> t.rows[p[i]]]]

\* C4: whatever the order of the input's rows, every transaction gets the
\* anomaly_score it got in the call made.
ScoreIndependentOfRowOrder ==
  Called("compute_anomaly_score") =>
    \A p \in Orderings(AllRows(Input)) :
      LET q == PermuteRows(Input, p)
          scores == AnomalyScores(q)
      IN \A i, j \in AllRows(Input) :
           q.rows[i]["transaction_id"] = Table(out.ref).rows[j]["transaction_id"]
             => scores[i] = Table(out.ref).rows[j]["anomaly_score"]

\* C4 witness: a scored table of three rows, two of them with the same amount.
ScoredTableWithTie ==
  /\ Called("compute_anomaly_score")
  /\ NRows(Input) = 3
  /\ Input.rows[1]["amount"] = Input.rows[3]["amount"]
  /\ Input.rows[1]["amount"] # Input.rows[2]["amount"]

\* C5: basic_info on a table without rows raises EmptyDatasetError.
BasicInfoOnEmptyRaises ==
  (Loaded /\ out.op = "basic_info" /\ BasicInfoColumns \subseteq Columns(Input) /\ NRows(Input) = 0)
    => out.error = "EmptyDatasetError"

EmptyAggregations ==
  {"monthly_summary", "category_summary", "top_merchants", "dayofweek_summary",
   "hourly_summary", "payment_mode_summary", "state_summary"}

\* C6 as stated: on a table without rows each of the seven summaries has no
\* rows and raises nothing.
EmptyTableGivesNoRows ==
  (Loaded /\ NRows(Input) = 0 /\ out.op \in EmptyAggregations) =>
    /\ out.error = "none"
    /\ Len(out.rows) = 0

\* C6 amended: on a table without rows none of the seven summaries raises;
\* dayofweek_summary has its seven rows Monday..Sunday with NaN metrics and
\* each of the other six has no rows.
EmptyTableGivesNoRowsButDays ==
  (Loaded /\ NRows(Input) = 0 /\ out.op \in EmptyAggregations) =>
    /\ out.error = "none"
    /\ out.op # "dayofweek_summary" => Len(out.rows) = 0
    /\ out.op = "dayofweek_summary" =>
         /\ Len(out.rows) = Len(DAY_ORDER)
         /\ \A n \in 1..Len(out.rows) :
              /\ out.rows[n].day_of_week = DAY_ORDER[n]
              /\ IsNaN(out.rows[n].total_spend)
              /\ IsNaN(out.rows[n].count)
              /\ IsNaN(out.rows[n].avg_spend)

\* C6 witness: dayofweek_summary called on the table of a file without lines.
DayOfWeekOnEmptyTable ==
  /\ Called("dayofweek_summary")
  /\ NRows(Input) = 0
  /\ Len(out.rows) = 7

\* A file load_data must reject: a column of the schema is absent or a date
\* or datetime cell does not parse.
Malformed(f) ==
  \/ Range(f.columns) # Range(SchemaColumns)
  \/ \E i \in 1..Len(f.rows) :
       \/ "date" \in Range(f.columns) /\ ~CanParseDate(f.rows[i]["date"])
       \/ "datetime" \in Range(f.columns) /\ ~CanParseDate(f.rows[i]["datetime"])

\* C7: on a malformed file load_data fails and returns no table (read with
\* any exception type standing for MalformedInputError); on any other file,
\* unknown categories included, it does not fail.
LoadRejectsMalformedInput ==
  /\ Malformed(file) => df = NoRef
  /\ ~Malformed(file) => loadError = "none"

\* C8: compute_anomaly_score leaves its input as load_data returned it and
\* returns another table: the input's columns in order followed by
\* anomaly_score, the input's rows in order with their cells unchanged.
ScorerLeavesInputAlone ==
  Called("compute_anomaly_score") =>
    /\ Input = LoadDataTable(file)
    /\ "anomaly_score" \notin Columns(Input)
    /\ out.ref # df
    /\ Table(out.ref).columns = Append(Input.columns, "anomaly_score")
    /\ NRows(Table(out.ref)) = NRows(Input)
    /\ \A i \in AllRows(Input) :
         /\ DOMAIN Table(out.ref).rows[i] = Columns(Input) \cup {"anomaly_score"}
         /\ \A c \in Columns(Input) : Table(out.ref).rows[i][c] = Input.rows[i][c]

\* C8 witness: a table of two rows or more was scored.
ScoredCopyReturned ==
  /\ Called("compute_anomaly_score")
  /\ NRows(Input) >= 2
  /\ "anomaly_score" \in Columns(Table(out.ref))

\* C9: fraud_by_hour has one row per hour of the table, in ascending order,
\* with the hour's flagged rows as fraud and the hour's rows as total.
FraudByHourCounts ==
  Called("fraud_by_hour") =>
    /\ {out.rows[n].hour : n \in 1..Len(out.rows)} = {Input.rows[i]["hour"] : i \in AllRows(Input)}
    /\ \A n, m \in 1..Len(out.rows) : n < m => out.rows[n].hour < out.rows[m].hour
    /\ \A n \in 1..Len(out.rows) :
         /\ out.rows[n].fraud
              = Cardinality({i \in AllRows(Input) : Input.rows[i]["hour"] = out.rows[n].hour
                                                     /\ Input.rows[i]["is_fraud"] = 1})
         /\ out.rows[n].total
              = Cardinality({i \in AllRows(Input) : Input.rows[i]["hour"] = out.rows[n].hour})

\* C9 witness: hours 10, 2, 14 with only the second row flagged.
FraudByHourScenario ==
  /\ Called("fraud_by_hour")
  /\ NRows(Input) = 3
  /\ <<Input.rows[1]["hour"], Input.rows[2]["hour"], Input.rows[3]["hour"]>> = <<10, 2, 14>>
  /\ <<Input.rows[1]["is_fraud"], Input.rows[2]["is_fraud"], Input.rows[3]["is_fraud"]>> = <<0, 1, 0>>
  /\ out.rows = <<[hour |-> 2, fraud |-> 1, total |-> 1],
                  [hour |-> 10, fraud |-> 0, total |-> 1],
                  [hour |-> 14, fraud |-> 0, total |-> 1]>>

\* C10: the odd-hour component is 30 for the hours 1, 2, 3, 4 and 0 for
\* every other hour.
OddHourComponent ==
  Called("compute_anomaly_score") =>
    \A i \in AllRows(Input) :
      LET h == Input.rows[i]["hour"]
      IN /\ (1 <= h /\ h < 5) => series.odd_hour[i] = 30
         /\ ~(1 <= h /\ h < 5) => series.odd_hour[i] = 0

\* C10 witness: hour 5 scored next to hour 4.
OddHourBoundary ==
  /\ Called("compute_anomaly_score")
  /\ NRows(Input) = 2
  /\ Input.rows[1]["hour"] = 5 /\ series.odd_hour[1] = 0
  /\ Input.rows[2]["hour"] = 4 /\ series.odd_hour[2] = 30

\* C11: the amount-percentile component of a row is 40 times the average of
\* the ranks (from 1) of the rows with its amount, divided by the number of
\* rows; equal amounts get equal components and a larger amount a larger one.
AmountPctIsAverageRank ==
  Called("compute_anomaly_score") =>
    LET n == NRows(Input)
        less(i) == Cardinality({j \in AllRows(Input) : Input.rows[j]["amount"] < Input.rows[i]["amount"]})
        same(i) == Cardinality({j \in AllRows(Input) : Input.rows[j]["amount"] = Input.rows[i]["amount"]})
        pct(i) == series.amount_pct[i]
    IN /\ \A i \in AllRows(Input) :
            \* the ranks less + 1 .. less + same average to (2 * less + same + 1) / 2
            /\ pct(i).den > 0
            /\ pct(i).num * 2 * n = 40 * (2 * less(i) + same(i) + 1) * pct(i).den
       /\ \A i, j \in AllRows(Input) :
            /\ Input.rows[i]["amount"] = Input.rows[j]["amount"]
                 => pct(i).num * pct(j).den = pct(j).num * pct(i).den
            /\ Input.rows[i]["amount"] < Input.rows[j]["amount"]
                 => pct(i).num * pct(j).den < pct(j).num * pct(i).den

\* C11 witness: two rows tie below a third; the tied rows get 40 * 1.5 / 3 = 20,
\* the third 40.
TiedAmountsShareComponent ==
  /\ Called("compute_anomaly_score")
  /\ NRows(Input) = 3
  /\ Input.rows[1]["amount"] = Input.rows[2]["amount"]
  /\ Input.rows[2]["amount"] < Input.rows[3]["amount"]
  /\ series.amount_pct[1].num = 20 * series.amount_pct[1].den
  /\ series.amount_pct[2].num = 20 * series.amount_pct[2].den
  /\ series.amount_pct[3].num = 40 * series.amount_pct[3].den

\* C12: dayofweek_summary has the seven rows Monday..Sunday in that order; a
\* day without rows in the table has NaN metrics, a day with rows has the
\* sum, the count and the mean of their amounts.
DayOfWeekRowsFixedOrder ==
  Called("dayofweek_summary") =>
    /\ Len(out.rows) = 7
    /\ \A n \in 1..Len(out.rows) :
         LET r == out.rows[n]
             I == {i \in AllRows(Input) : Input.rows[i]["day_of_week"] = r.day_of_week}
             total == SumOver(Input.rows, "amount", I)
         IN /\ n <= Len(DAY_ORDER) /\ r.day_of_week = DAY_ORDER[n]
            /\ I = {} => (IsNaN(r.total_spend) /\ IsNaN(r.count) /\ IsNaN(r.avg_spend))
            /\ I # {} =>
                 /\ ~IsNaN(r.total_spend) /\ r.total_spend.num = total * r.total_spend.den
                 /\ ~IsNaN(r.count) /\ r.count.num = Cardinality(I) * r.count.den
                 /\ ~IsNaN(r.avg_spend) /\ r.avg_spend.num * Cardinality(I) = total * r.avg_spend.den

\* C12 witness: Sunday, Monday, Sunday in the file; Monday comes out first,
\* Tuesday is there with NaN, Sunday is last with 5100 over two rows.
DayOfWeekWithGaps ==
  /\ Called("dayofweek_summary")
  /\ NRows(Input) = 3
  /\ <<Input.rows[1]["day_of_week"], Input.rows[2]["day_of_week"], Input.rows[3]["day_of_week"]>>
       = <<"Sunday", "Monday", "Sunday">>
  /\ <<Input.rows[1]["amount"], Input.rows[2]["amount"], Input.rows[3]["amount"]>> = <<5000, 100, 100>>
  /\ Len(out.rows) = 7
  /\ out.rows[1] = [day_of_week |-> "Monday", total_spend |-> Frac(100, 1),
                    count |-> Frac(1, 1), avg_spend |-> Frac(100, 1)]
  /\ out.rows[2].day_of_week = "Tuesday" /\ IsNaN(out.rows[2].total_spend)
  /\ out.rows[7] = [day_of_week |-> "Sunday", total_spend |-> Frac(5100, 1),
                    count |-> Frac(2, 1), avg_spend |-> Frac(5100, 2)]

\* C13: fraud_by_category has one row per category of the table, with the
\* category's flagged rows as fraud_count, its rows as total and the amount
\* of its flagged rows alone as fraud_amount, ordered by fraud_count descending.
FraudByCategoryCounts ==
  Called("fraud_by_category") =>
    LET of(k) == {i \in AllRows(Input) : Input.rows[i]["category"] = k}
        flagged(k) == {i \in of(k) : Input.rows[i]["is_fraud"] = 1}
    IN /\ {out.rows[n].category : n \in 1..Len(out.rows)}
            = {Input.rows[i]["category"] : i \in AllRows(Input)} \ {NaN}
       /\ \A n, m \in 1..Len(out.rows) : n # m => out.rows[n].category # out.rows[m].category
       /\ \A n \in 1..Len(out.rows) :
            /\ out.rows[n].fraud_count = Cardinality(flagged(out.rows[n].category))
            /\ out.rows[n].total = Cardinality(of(out.rows[n].category))
            /\ out.rows[n].fraud_amount = SumOver(Input.rows, "amount", flagged(out.rows[n].category))
            /\ flagged(out.rows[n].category) = {} => out.rows[n].fraud_amount = 0
       /\ \A n, m \in 1..Len(out.rows) : n < m => out.rows[n].fraud_count >= out.rows[m].fraud_count

\* C13 witness: Crypto without a flagged row comes first in the file; Food has
\* a flagged 5000 and an unflagged 100, and comes out first with 5000, not 5100.
FraudAmountOfFlaggedOnly ==
  /\ Called("fraud_by_category")
  /\ NRows(Input) = 3
  /\ <<Input.rows[1]["category"], Input.rows[2]["category"], Input.rows[3]["category"]>>
       = <<"Crypto", "Food", "Food">>
  /\ <<Input.rows[1]["amount"], Input.rows[2]["amount"], Input.rows[3]["amount"]>> = <<5000, 100, 5000>>
  /\ <<Input.rows[1]["is_fraud"], Input.rows[2]["is_fraud"], Input.rows[3]["is_fraud"]>> = <<0, 0, 1>>
  /\ out.rows = <<[category |-> "Food", fraud_count |-> 1, total |-> 2, fraud_amount |-> 5000],
                  [category |-> "Crypto", fraud_count |-> 0, total |-> 1, fraud_amount |-> 0]>>

====
